---- MODULE Spec2Model ----
(***************************************************************************)
(* The task manager's client state (TaskManager.tsx) against the remote    *)
(* task table and its change feed.                                         *)
(*                                                                         *)
(* One reachable state is the React state of the mounted TaskManager       *)
(* (tasks, selectedTasks, editingTask, showForm, formSubmitError, loading),*)
(* the TaskForm's own submit error, the rows of the remote table, the      *)
(* change-feed events not yet delivered, and every handler that is         *)
(* suspended at an await, with the values its closure captured.            *)
(*                                                                         *)
(* Every await is two steps: the server answers the request (and, for a    *)
(* write, changes the table and emits the change-feed events), and later   *)
(* the handler resumes with the answer.  Change-feed events are delivered  *)
(* in the order the server emitted them, at any time.                      *)
(*                                                                         *)
(* A change-feed payload carries the full row as new for INSERT and        *)
(* UPDATE, the full row as old for UPDATE and DELETE, and nothing (NoRec)  *)
(* otherwise.                                                              *)
(***************************************************************************)
EXTENDS Integers, Sequences, FiniteSets, Bags, TLC

\* ------------------------------------------------------------------ bounds

\* The number of remote operations the user starts (create, update, delete,
\* toggle, status, bulk delete, bulk complete).
MaxOps == 2

\* The number of writes made by other sessions (the same user elsewhere, or
\* another user).
MaxForeign == 1

\* The number of tasks in a cache whose view is computed.
MaxShown == 3

\* The number of remote operations the page starts when creates and edits
\* are issued one at a time.
MaxSerial == 4

\* The number of status changes the page starts when they are issued one at a
\* time.
MaxCycles == 3

\* The number of times the user signs in on the mounted component.
MaxLogins == 2

\* ------------------------------------------------------------- the values

\* user.id of the signed-in user, and the id of some other user.
Me == "u1"

Other == "u2"

\* "No record": a null Task, an absent payload.new or payload.old.
NoRec == [id |-> 0]

\* Error messages (error.message of a failed remote call; the text of the
\* duplicate-title error).
RemoteError == "remote error"

DuplicateTitle == "A task with this title already exists. Please use a different title."

\* The titles the user types into the task form.
FormTitles == {<<"a">>, <<"c">>}

\* The title of a task inserted by another session.
ForeignTitle == <<"c">>

\* interface Task
Task(id, user, title, status, completed, created, updated) ==
  [id |-> id, user_id |-> user, title |-> title, description |-> << >>,
   category |-> "Work", priority |-> "medium", status |-> status,
   due_date |-> 10, completed |-> completed,
   created_at |-> created, updated_at |-> updated]

\* { ...task, ...data }
Merge(task, data) ==
  [f \in DOMAIN task |-> IF f \in DOMAIN data THEN data[f] ELSE task[f]]

\* tasks.find((t) => t.id === id), as a list of zero or one task
FindTask(current, id) ==
  LET hits == SelectSeq(current, LAMBDA t : t.id = id)
  IN  IF hits = << >> THEN << >> ELSE <<Head(hits)>>

\* The ids of the tasks of a list.
IdsOf(current) == {current[i].id : i \in DOMAIN current}

\* The tasks of a list as a bag (each record with its multiplicity).
RECURSIVE BagOf(_)
BagOf(current) ==
  IF current = << >> THEN EmptyBag
  ELSE SetToBag({Head(current)}) (+) BagOf(Tail(current))

\* .order('created_at', { ascending: false })
RECURSIVE OrderDesc(_)
OrderDesc(S) ==
  IF S = {} THEN << >>
  ELSE LET m == CHOOSE r \in S : \A q \in S : q.created_at <= r.created_at
       IN  <<m>> \o OrderDesc(S \ {m})

\* The rows of S as a list, oldest id first (the order the server emits
\* the events of a write that changes several rows).
RECURSIVE OrderById(_)
OrderById(S) ==
  IF S = {} THEN << >>
  ELSE LET m == CHOOSE r \in S : \A q \in S : r.id <= q.id
       IN  <<m>> \o OrderById(S \ {m})

InsertEvent(row) == [eventType |-> "INSERT", new |-> row, old |-> NoRec]

UpdateEvent(old, new) == [eventType |-> "UPDATE", new |-> new, old |-> old]

DeleteEvent(row) == [eventType |-> "DELETE", new |-> NoRec, old |-> row]

NoEvent == [eventType |-> "NONE", new |-> NoRec, old |-> NoRec]

\* ------------------------------------------------------------- the state

VARIABLES
  rows,                \* the remote table: a set of Task rows, of every user
  clock,               \* the server's clock; a new row's id is the time of its insert
  loadPhase,           \* loadTasks: "sent", "data", "error", "done", "failed"
  loadData,            \* the rows the load's select returned
  feed,                \* change-feed events emitted and not yet delivered
  tasks,               \* useState<Task[]>: the Local Task Cache
  loading,             \* useState(true)
  showForm,            \* useState(false)
  editingTask,         \* useState<Task | null>
  formSubmitError,     \* useState('')
  internalSubmitError, \* TaskForm's useState(''), of the mounted form
  selectedTasks,       \* useState<Set<string>>: the Selection Set
  pending,             \* the handlers suspended at an await
  opCount,             \* remote operations started so far
  foreignCount,        \* foreign writes so far
  latest,              \* per task id: the user's most recent local action on it
  last,                \* what the step that led here did
  sortBy,              \* useState<SortOption>('newest')
  filters,             \* useState<FilterOptions>
  now,                 \* the time, in hours since the start of day 0 (UTC)
  zone,                \* the browser's time zone: local time minus UTC, in hours
  form,                \* TaskForm's fields: title, description, category, priority, status, dueDate
  errors,              \* TaskForm's useState<Record<string, string>>: the fields in error
  opLimit,             \* how many remote operations the page starts in this run
  session              \* useAuth's user, the component and its change-feed channels

remoteVars == <<rows, clock, feed, foreignCount>>

loadVars == <<loadPhase, loadData, loading>>

formVars == <<showForm, editingTask, formSubmitError, internalSubmitError>>

\* What the page shows of the cache and when, and what the task form holds.
uiVars == <<sortBy, filters, now, zone, form, errors, opLimit, session>>

vars == <<rows, clock, loadPhase, loadData, feed, tasks, loading, showForm,
          editingTask, formSubmitError, internalSubmitError, selectedTasks,
          pending, opCount, foreignCount, latest, last, sortBy, filters, now,
          zone, form, errors, opLimit, session>>

\* The rows the table starts with: one task of the user.
InitRows == {Task(1, Me, <<"a">>, "todo", FALSE, 1, 1)}

\* Every id a row can get.
Ids ==
  1 .. (Cardinality(InitRows) + MaxForeign +
          IF MaxOps > MaxSerial THEN MaxOps ELSE MaxSerial)

NoOp == [n |-> 0, kind |-> "none"]

NoAction == [n |-> 0]

\* A step the claims do not ask about.
Step == [kind |-> "step", op |-> NoOp, ev |-> NoEvent, rejected |-> FALSE, selBefore |-> {}]

\* A handler ran to its end: which one, whether it threw to its caller
\* (the task form's handleSubmit), and the selection it found.
Done(kind, op, rejected) ==
  [kind |-> kind, op |-> op, ev |-> NoEvent, rejected |-> rejected,
   selBefore |-> selectedTasks]

\* The change-feed callback ran on an event.
Fed(payload) ==
  [kind |-> "feed", op |-> NoOp, ev |-> payload, rejected |-> FALSE, selBefore |-> {}]

\* ------------------------------------------- the change-feed subscription

\* A callback without the two owner checks.
AnyOwner(payload) == TRUE

\* if (payload.new && payload.new.user_id !== user.id) return;
\* if (payload.old && payload.old.user_id !== user.id) return;
ForCurrentUser(payload) ==
  /\ payload.new # NoRec => payload.new.user_id = Me
  /\ payload.old # NoRec => payload.old.user_id = Me

\* An INSERT branch without the hasTask check.
InsertAlways(current, task) == <<task>> \o current

\* The INSERT branch's updater.
InsertIfAbsent(current, task) ==
  IF \E i \in DOMAIN current : current[i].id = task.id
  THEN current
  ELSE <<task>> \o current

\* The UPDATE branch's updater.
ReplaceById(current, task) ==
  [i \in DOMAIN current |-> IF current[i].id = task.id THEN task ELSE current[i]]

\* The DELETE branch's updater, and the optimistic removal of a delete.
RemoveById(current, id) == SelectSeq(current, LAMBDA t : t.id # id)

\* The postgres_changes callback.
IngestEvent(current, payload) ==
  IF ~ForCurrentUser(payload) THEN current
  ELSE IF payload.eventType = "INSERT" THEN InsertIfAbsent(current, payload.new)
  ELSE IF payload.eventType = "UPDATE" THEN ReplaceById(current, payload.new)
  ELSE IF payload.eventType = "DELETE" THEN RemoveById(current, payload.old.id)
  ELSE current

\* Suspended handlers whose optimistic change is no longer the only change
\* made to the cache and the selection since it was applied.
Touch(ops, changed) ==
  IF changed THEN {[o EXCEPT !.clean = FALSE] : o \in ops} ELSE ops

\* ------------------------------------------------------------- dates, time

\* due_date: string | null.  A date is the number of its day; day 0 is no
\* date (null, or the form's empty string).
NoDate == 0

\* new Date(dateString).getTime(): a date-only string is the start of that
\* day in UTC.
ParseDate(day) == 24 * day

\* date.setHours(0, 0, 0, 0): the instant at which the instant's day started
\* in the browser's time zone.
StartOfDay(instant) == 24 * ((instant + zone) \div 24) - zone

\* The days of the month a day is in (a year that starts with day 0:
\* January, February, then months of 31 days).
DaysInMonth(day) == IF day < 31 THEN 31 ELSE IF day < 59 THEN 28 ELSE 31

\* weekFromNow.setDate(weekFromNow.getDate() + 7)
WeekFrom(today) == today + 24 * 7

\* monthFromNow.setMonth(monthFromNow.getMonth() + 1): the same day of the
\* next month, running over into the month after it when that day is
\* missing.
MonthFrom(today) == today + 24 * DaysInMonth((today + zone) \div 24)

\* The time of the sessions whose page keeps its initial filters: noon (UTC)
\* of day 10.
Noon == 24 * 10 + 12

\* TaskForm's useState initial values.  A title or a description is a
\* sequence of characters.
BlankForm ==
  [title |-> << >>, description |-> << >>, category |-> "Work",
   priority |-> "medium", status |-> "todo", dueDate |-> NoDate]

\* ---------------------------------------------- filteredAndSortedTasks

\* useState<FilterOptions>'s initial value.
NoFilters ==
  [category |-> "all", priority |-> "all", status |-> "all", dueDateRange |-> "all"]

\* The callback of the due-date filter.
InDueDateRange(t) ==
  IF t.due_date = NoDate THEN FALSE
  ELSE LET today == StartOfDay(now)
           dueDate == StartOfDay(ParseDate(t.due_date))
       IN  CASE filters.dueDateRange = "overdue" -> dueDate < today /\ ~t.completed
             [] filters.dueDateRange = "today" -> dueDate = today
             [] filters.dueDateRange = "week" ->
                  dueDate >= today /\ dueDate <= WeekFrom(today)
             [] filters.dueDateRange = "month" ->
                  dueDate >= today /\ dueDate <= MonthFrom(today)
             [] OTHER -> TRUE

ByCategory(current) ==
  IF filters.category # "all"
  THEN SelectSeq(current, LAMBDA t : t.category = filters.category)
  ELSE current

ByPriority(current) ==
  IF filters.priority # "all"
  THEN SelectSeq(current, LAMBDA t : t.priority = filters.priority)
  ELSE current

ByStatus(current) ==
  IF filters.status # "all"
  THEN SelectSeq(current, LAMBDA t : t.status = filters.status)
  ELSE current

ByDueDate(current) ==
  IF filters.dueDateRange # "all"
  THEN SelectSeq(current, InDueDateRange)
  ELSE current

\* The priorities ranked by their names.
ByName(priority) ==
  CASE priority = "high" -> 0
    [] priority = "low" -> 1
    [] priority = "medium" -> 2

\* const priorityOrder = { high: 0, medium: 1, low: 2 }
PriorityOrder(priority) ==
  CASE priority = "high" -> 0
    [] priority = "medium" -> 1
    [] priority = "low" -> 2

\* A comparator that does not look at completed.
CompareByKey(a, b) ==
  CASE sortBy = "newest" -> b.created_at - a.created_at
    [] sortBy = "oldest" -> a.created_at - b.created_at
    [] sortBy = "due_date" -> ParseDate(a.due_date) - ParseDate(b.due_date)
    [] sortBy = "priority" -> PriorityOrder(a.priority) - PriorityOrder(b.priority)
    [] OTHER -> 0

\* The comparator of filtered.sort.
Compare(a, b) ==
  IF a.completed /\ ~b.completed THEN 1
  ELSE IF ~a.completed /\ b.completed THEN -1
  ELSE CASE sortBy = "newest" -> b.created_at - a.created_at
         [] sortBy = "oldest" -> a.created_at - b.created_at
         [] sortBy = "due_date" ->
              IF a.due_date = NoDate /\ b.due_date = NoDate THEN 0
              ELSE IF a.due_date = NoDate THEN 1
              ELSE IF b.due_date = NoDate THEN -1
              ELSE ParseDate(a.due_date) - ParseDate(b.due_date)
         [] sortBy = "priority" -> PriorityOrder(a.priority) - PriorityOrder(b.priority)
         [] OTHER -> 0

\* Array.prototype.sort, which is stable: a task goes after the last task
\* that the comparator does not put after it.
RECURSIVE Place(_, _)
Place(sorted, t) ==
  IF sorted = << >> THEN <<t>>
  ELSE IF Compare(sorted[Len(sorted)], t) > 0
       THEN Place(SubSeq(sorted, 1, Len(sorted) - 1), t) \o <<sorted[Len(sorted)]>>
       ELSE sorted \o <<t>>

RECURSIVE SortTasks(_)
SortTasks(current) ==
  IF current = << >> THEN << >>
  ELSE Place(SortTasks(SubSeq(current, 1, Len(current) - 1)), current[Len(current)])

\* The tasks the page lists, in the order it lists them.
filteredAndSortedTasks ==
  SortTasks(ByDueDate(ByStatus(ByPriority(ByCategory(tasks)))))

\* A signed-in user on the mounted component: the mount effect has opened the
\* one channel.
SignedIn == [user |-> TRUE, mounted |-> TRUE, channels |-> 1, logins |-> 1]

Start ==
  /\ session = SignedIn
  /\ rows = InitRows
  /\ clock = Cardinality(InitRows)
  /\ loadPhase = "sent"
  /\ loadData = << >>
  /\ feed = << >>
  /\ tasks = << >>
  /\ loading = TRUE
  /\ showForm = FALSE
  /\ editingTask = NoRec
  /\ formSubmitError = ""
  /\ internalSubmitError = ""
  /\ selectedTasks = {}
  /\ pending = {}
  /\ opCount = 0
  /\ foreignCount = 0
  /\ latest = [i \in Ids |-> NoAction]
  /\ last = Step
  /\ sortBy = "newest"
  /\ filters = NoFilters
  /\ now = Noon
  /\ zone = 0
  /\ form = BlankForm
  /\ errors = {}

Init == Start /\ opLimit = MaxOps

\* ---------------------------------------------------------------- loadTasks

\* The server answers the load's select: the user's rows, newest first, or
\* an error.
LoadServer ==
  /\ loadPhase = "sent"
  /\ \/ /\ loadPhase' = "data"
        /\ loadData' = OrderDesc({r \in rows : r.user_id = Me})
     \/ /\ loadPhase' = "error"
        /\ loadData' = << >>
  /\ last' = Step
  /\ UNCHANGED <<rows, clock, feed, foreignCount, tasks, loading, formVars,
                 selectedTasks, pending, opCount, latest>>
  /\ UNCHANGED uiVars

\* loadTasks resumes: setTasks(data) unless the select failed; setLoading(false).
LoadResponse ==
  /\ loadPhase \in {"data", "error"}
  /\ tasks' = IF loadPhase = "data" THEN loadData ELSE tasks
  /\ loading' = FALSE
  /\ loadPhase' = IF loadPhase = "data" THEN "done" ELSE "failed"
  /\ pending' = Touch(pending, tasks' # tasks)
  /\ last' = Step
  /\ UNCHANGED <<rows, clock, feed, foreignCount, loadData, formVars,
                 selectedTasks, opCount, latest>>
  /\ UNCHANGED uiVars

\* The next change-feed event is delivered to the postgres_changes callback
\* of the open channel.
FeedDeliver ==
  /\ session.channels > 0
  /\ feed # << >>
  /\ tasks' = IngestEvent(tasks, Head(feed))
  /\ feed' = Tail(feed)
  /\ pending' = Touch(pending, tasks' # tasks)
  /\ last' = Fed(Head(feed))
  /\ UNCHANGED <<rows, clock, foreignCount, loadVars, formVars, selectedTasks,
                 opCount, latest>>
  /\ UNCHANGED uiVars

\* ----------------------------------------------------------- other sessions

\* Another session inserts a row: the same user elsewhere, or another user.
ForeignInsert ==
  /\ foreignCount < MaxForeign
  /\ \E u \in {Me, Other} :
       LET row == Task(clock + 1, u, ForeignTitle, "todo", FALSE, clock + 1, clock + 1)
       IN  /\ rows' = rows \cup {row}
           /\ feed' = Append(feed, InsertEvent(row))
  /\ clock' = clock + 1
  /\ foreignCount' = foreignCount + 1
  /\ last' = Step
  /\ UNCHANGED <<loadVars, tasks, formVars, selectedTasks, pending, opCount, latest>>
  /\ UNCHANGED uiVars

\* Another session of the row's owner marks it completed or not.
ForeignUpdate ==
  /\ foreignCount < MaxForeign
  /\ \E r \in rows :
       LET row == [r EXCEPT !.completed = ~r.completed, !.updated_at = clock + 1]
       IN  /\ rows' = (rows \ {r}) \cup {row}
           /\ feed' = Append(feed, UpdateEvent(r, row))
           /\ latest' = [latest EXCEPT ![r.id] = NoAction]
  /\ clock' = clock + 1
  /\ foreignCount' = foreignCount + 1
  /\ last' = Step
  /\ UNCHANGED <<loadVars, tasks, formVars, selectedTasks, pending, opCount>>
  /\ UNCHANGED uiVars

\* Another session of the row's owner deletes it.
ForeignDelete ==
  /\ foreignCount < MaxForeign
  /\ \E r \in rows :
       /\ rows' = rows \ {r}
       /\ feed' = Append(feed, DeleteEvent(r))
       /\ latest' = [latest EXCEPT ![r.id] = NoAction]
  /\ foreignCount' = foreignCount + 1
  /\ last' = Step
  /\ UNCHANGED <<clock, loadVars, tasks, formVars, selectedTasks, pending, opCount>>
  /\ UNCHANGED uiVars

\* ------------------------------------------------------ suspended handlers

\* A handler suspended at its first await.  snap is what it read from the
\* render it was called in (originalTask, taskToDelete, tasksToDelete,
\* tasksToUpdate, task), sel the selectedTasks and errAt the formSubmitError
\* of that render, form whether the TaskForm that awaits it is still mounted,
\* answer what the duplicate-title check answered, res the row an insert
\* returned.  pre and preSel are the cache and the
\* selection before the handler changed the cache; clean says that nothing
\* else has changed the cache since.
NewOp(kind, phase) ==
  [n |-> opCount + 1, kind |-> kind, phase |-> phase, id |-> 0, ids |-> {},
   data |-> NoRec, snap |-> << >>, sel |-> {}, errAt |-> "", form |-> FALSE,
   answer |-> "", res |-> NoRec, pre |-> tasks, preSel |-> selectedTasks,
   clean |-> TRUE]

\* The TaskForm is unmounted: no suspended handler's caller is mounted.
Unmount(ops) == {[o EXCEPT !.form = FALSE] : o \in ops}

\* The user's most recent local action on a task.
Action(o) == [n |-> o.n, data |-> o.data]

\* The failed handler's action is no longer the one the cache should show.
Forget(o) == [i \in Ids |-> IF latest[i].n = o.n THEN NoAction ELSE latest[i]]

\* --------------------------------------------------------------- TaskForm

\* The characters of the titles: a space, a punctuation mark, letters, a digit.
Characters == {" ", "!", "a", "c", "7"}

\* /[a-zA-Z0-9]/
AlphaNumeric == {"a", "c", "7"}

\* title.length > 100
TitleLimit == 100

\* description.length > 1000
DescriptionLimit == 1000

\* title.trim(): the title without its leading and trailing spaces.
Trim(text) ==
  LET kept == {i \in DOMAIN text : text[i] # " "}
  IN  IF kept = {} THEN << >>
      ELSE SubSeq(text, CHOOSE i \in kept : \A j \in kept : i <= j,
                        CHOOSE i \in kept : \A j \in kept : j <= i)

\* A date that is never in the past.
NeverInPast(dueDate) == FALSE

\* selectedDate < today, both set to the start of their local day.
InPast(dueDate) == StartOfDay(ParseDate(dueDate)) < StartOfDay(now)

\* validateForm: the keys of newErrors for the fields f.
NewErrors(f) ==
  (IF \/ Trim(f.title) = << >>
      \/ ~\E i \in DOMAIN f.title : f.title[i] \in AlphaNumeric
      \/ Len(f.title) > TitleLimit
   THEN {"title"} ELSE {})
  \cup (IF Len(f.description) > DescriptionLimit THEN {"description"} ELSE {})
  \cup (IF f.priority = "" THEN {"priority"} ELSE {})
  \cup (IF f.dueDate = NoDate \/ InPast(f.dueDate) THEN {"dueDate"} ELSE {})

\* validateForm on the form's fields.
validateForm == NewErrors(form)

\* The object handleSubmit passes to onSubmit.
Submitted(f) ==
  [title |-> f.title, description |-> f.description, category |-> f.category,
   priority |-> f.priority, status |-> f.status, due_date |-> f.dueDate]

\* The fields the mounted form shows for a task.
FieldsOf(task) ==
  [title |-> task.title, description |-> task.description,
   category |-> task.category, priority |-> task.priority,
   status |-> task.status, dueDate |-> task.due_date]

\* Array.from(allCategories).sort()
categories == <<"Personal", "Urgent", "Work">>

\* The form's fields after its mount effect.
MountForm(task) ==
  IF task = NoRec THEN [BlankForm EXCEPT !.category = categories[1]]
  ELSE FieldsOf(task)

\* What the new-task form submits: it has passed validateForm.
CreateData ==
  {Submitted(f) : f \in
     {g \in {[BlankForm EXCEPT !.title = t, !.dueDate = 10] : t \in FormTitles} :
        NewErrors(g) = {}}}

\* What the edit form submits: the fields start as the edited task's, and it
\* has passed validateForm.
EditData(task) ==
  {Submitted(f) : f \in
     {g \in {[FieldsOf(task) EXCEPT !.title = t] : t \in FormTitles} :
        NewErrors(g) = {}}}

\* ------------------------------------------------------------ the controls

\* The page's controls are rendered for a signed-in user once loading is
\* false, and the task form, a full-screen overlay, covers them while it is
\* shown.
PageUsable == session.user /\ session.mounted /\ ~loading /\ ~showForm

\* Add New Task
OpenAddForm ==
  /\ PageUsable
  /\ opCount < opLimit
  /\ editingTask' = NoRec
  /\ showForm' = TRUE
  /\ internalSubmitError' = ""
  /\ last' = Step
  /\ UNCHANGED <<remoteVars, loadVars, tasks, formSubmitError, selectedTasks,
                 pending, opCount, latest>>
  /\ UNCHANGED uiVars

\* A card's Edit button (rendered for the owner).
OpenEditForm ==
  /\ PageUsable
  /\ opCount < opLimit
  /\ \E i \in DOMAIN tasks :
       /\ tasks[i].user_id = Me
       /\ editingTask' = tasks[i]
  /\ showForm' = TRUE
  /\ internalSubmitError' = ""
  /\ last' = Step
  /\ UNCHANGED <<remoteVars, loadVars, tasks, formSubmitError, selectedTasks,
                 pending, opCount, latest>>
  /\ UNCHANGED uiVars

\* The form's onClose.
CloseForm ==
  /\ ~loading /\ showForm
  /\ showForm' = FALSE
  /\ editingTask' = NoRec
  /\ formSubmitError' = ""
  /\ internalSubmitError' = ""
  /\ pending' = Unmount(pending)
  /\ last' = Step
  /\ UNCHANGED <<remoteVars, loadVars, tasks, selectedTasks, opCount, latest>>
  /\ UNCHANGED uiVars

\* toggleTaskSelection, from a card's checkbox.
ToggleTaskSelection ==
  /\ PageUsable
  /\ opCount < opLimit
  /\ \E id \in IdsOf(filteredAndSortedTasks) :
       selectedTasks' = IF id \in selectedTasks
                        THEN selectedTasks \ {id}
                        ELSE selectedTasks \cup {id}
  /\ pending' = Touch(pending, TRUE)
  /\ last' = Step
  /\ UNCHANGED <<remoteVars, loadVars, tasks, formVars, opCount, latest>>
  /\ UNCHANGED uiVars

\* --------------------------------------------------- duplicate-title check

\* .select('id').eq('user_id', user.id).eq('title', data.title).limit(1)
TitleTaken(title) == \E r \in rows : r.user_id = Me /\ r.title = title

\* What a duplicate-title select answers: the title is taken or not, or the
\* select fails.  The select changes nothing on the server, so its answer
\* and the handler's resumption are one step.
PrecheckAnswers(o) ==
  {IF TitleTaken(o.data.title) THEN "found" ELSE "none", "precheckErr"}

\* if (fetchError) throw fetchError;
\* if (existingTasks && existingTasks.length > 0) throw new Error(...)
PrecheckPasses(answer) == answer = "none"

\* The message of the error a failed duplicate-title check throws.
PrecheckMessage(answer) == IF answer = "found" THEN DuplicateTitle ELSE RemoteError

\* formSubmitError after the catch block of a handler whose render had
\* formSubmitError = o.errAt: if (!formSubmitError) setFormSubmitError(message).
AfterCatch(o, current, message) == IF o.errAt = "" THEN message ELSE current

\* formSubmitError after a failed duplicate-title check.
AfterPrecheck(o, answer) ==
  AfterCatch(o, IF answer = "found" THEN DuplicateTitle ELSE formSubmitError,
             PrecheckMessage(answer))

\* -------------------------------------------------------- handleCreateTask

\* A create that shows the new task before the insert has answered.
OptimisticInsert(current, data) ==
  <<Merge(Task(0, Me, << >>, "todo", FALSE, 0, 0), data)>> \o current

\* The cache while handleCreateTask runs up to its insert: it calls no
\* setTasks there.
BeforeInsert(current, data) == current

\* setTasks((current) => [newTask, ...current])
PrependTask(current, task) == <<task>> \o current

\* The cache when handleCreateTask ends in its catch block.
CreateCaught(current, o) == current

\* handleCreateTask, called by the form's handleSubmit, up to its first
\* await: it starts its title check.
handleCreateTask(data) ==
  /\ pending' = pending \cup
       {[NewOp("create", "precheck") EXCEPT
           !.data = data, !.errAt = formSubmitError, !.form = TRUE]}
  /\ tasks' = BeforeInsert(tasks, data)
  /\ opCount' = opCount + 1
  /\ internalSubmitError' = ""
  /\ last' = Step
  /\ UNCHANGED <<remoteVars, loadVars, showForm, editingTask, formSubmitError,
                 selectedTasks, latest>>

\* The form submits a new task.
SubmitCreate ==
  /\ ~loading /\ showForm /\ editingTask = NoRec
  /\ opCount < opLimit
  /\ \E data \in CreateData : handleCreateTask(data)
  /\ UNCHANGED uiVars

\* handleCreateTask resumes after the title check: it throws (a failed check,
\* a taken title), or closes the form and sends the insert.
CreatePrecheckReply ==
  \E o \in {p \in pending : p.kind = "create" /\ p.phase = "precheck"} :
  \E answer \in PrecheckAnswers(o) :
    /\ IF PrecheckPasses(answer)
       THEN /\ showForm' = FALSE
            /\ internalSubmitError' = ""
            /\ pending' = Unmount((pending \ {o}) \cup
                 {[o EXCEPT !.phase = "sent", !.answer = answer]})
            /\ tasks' = BeforeInsert(tasks, o.data)
            /\ last' = Step
            /\ UNCHANGED formSubmitError
       ELSE /\ formSubmitError' = AfterPrecheck(o, answer)
            /\ internalSubmitError' =
                 IF o.form THEN PrecheckMessage(answer) ELSE internalSubmitError
            /\ pending' = pending \ {o}
            /\ tasks' = CreateCaught(tasks, o)
            /\ last' = Done("createFailed", [o EXCEPT !.answer = answer], TRUE)
            /\ UNCHANGED showForm
    /\ UNCHANGED <<remoteVars, loadVars, editingTask, selectedTasks, opCount, latest>>
    /\ UNCHANGED uiVars

\* The row an insert of data creates: the table's defaults, then the
\* inserted columns.
InsertedRow(data) ==
  [Merge(Task(clock + 1, Me, "", "todo", FALSE, clock + 1, clock + 1), data)
     EXCEPT !.user_id = Me]

\* The server runs the insert and emits its INSERT event.
CreateInsertServer ==
  \E o \in pending :
    /\ o.kind = "create" /\ o.phase = "sent"
    /\ rows' = rows \cup {InsertedRow(o.data)}
    /\ feed' = Append(feed, InsertEvent(InsertedRow(o.data)))
    /\ clock' = clock + 1
    /\ pending' = (pending \ {o}) \cup
         {[o EXCEPT !.phase = "ok", !.res = InsertedRow(o.data)]}
    /\ last' = Step
    /\ UNCHANGED <<foreignCount, loadVars, tasks, formVars, selectedTasks, opCount, latest>>
    /\ UNCHANGED uiVars

\* handleCreateTask resumes after the insert: it adds the returned row to the
\* cache, or (the insert failed, and changed nothing on the server) throws.
CreateInsertReply ==
  \E o \in pending :
    /\ o.kind = "create" /\ o.phase \in {"ok", "sent"}
    /\ IF o.phase = "ok"
       THEN /\ tasks' = PrependTask(tasks, o.res)
            /\ formSubmitError' = ""
            /\ last' = Done("created", o, FALSE)
            /\ UNCHANGED internalSubmitError
       ELSE /\ tasks' = CreateCaught(tasks, o)
            /\ formSubmitError' = AfterCatch(o, formSubmitError, RemoteError)
            /\ internalSubmitError' = IF o.form THEN RemoteError ELSE internalSubmitError
            /\ last' = Done("createFailed", [o EXCEPT !.phase = "err"], TRUE)
    /\ pending' = Touch(pending \ {o}, tasks' # tasks)
    /\ UNCHANGED <<remoteVars, loadVars, showForm, editingTask, selectedTasks, opCount, latest>>
    /\ UNCHANGED uiVars

\* ------------------------------------------------ the server's row writes

\* The ids a suspended handler's remote call names: .eq('id', id) or
\* .in('id', selectedTasksArray).
Target(o) == IF o.kind \in {"bulkDelete", "bulkComplete"} THEN o.ids ELSE {o.id}

\* The rows a call of the user can write: row-level security lets a user
\* update and delete only rows of their own.
Writable(o) == {r \in rows : r.id \in Target(o) /\ r.user_id = Me}

\* The BEFORE UPDATE trigger: NEW.updated_at = now().
UpdatedRow(r, data) == [Merge(r, data) EXCEPT !.updated_at = clock + 1]

\* The server runs an update (of an edit, a toggle, a status change, a bulk
\* complete) and emits an UPDATE event per row it changed.
UpdateServer ==
  \E o \in pending :
    /\ o.kind \in {"update", "toggle", "status", "bulkComplete"}
    /\ o.phase = "sent"
    /\ rows' = (rows \ Writable(o)) \cup {UpdatedRow(r, o.data) : r \in Writable(o)}
    /\ feed' = feed \o [i \in DOMAIN OrderById(Writable(o)) |->
                          UpdateEvent(OrderById(Writable(o))[i],
                                      UpdatedRow(OrderById(Writable(o))[i], o.data))]
    /\ clock' = IF Writable(o) = {} THEN clock ELSE clock + 1
    /\ pending' = (pending \ {o}) \cup {[o EXCEPT !.phase = "ok"]}
    /\ last' = Step
    /\ UNCHANGED <<foreignCount, loadVars, tasks, formVars, selectedTasks, opCount, latest>>
    /\ UNCHANGED uiVars

\* The server runs a delete (single or bulk) and emits a DELETE event per
\* row it removed.
DeleteServer ==
  \E o \in pending :
    /\ o.kind \in {"delete", "bulkDelete"}
    /\ o.phase = "sent"
    /\ rows' = rows \ Writable(o)
    /\ feed' = feed \o [i \in DOMAIN OrderById(Writable(o)) |->
                          DeleteEvent(OrderById(Writable(o))[i])]
    /\ pending' = (pending \ {o}) \cup {[o EXCEPT !.phase = "ok"]}
    /\ last' = Step
    /\ UNCHANGED <<clock, foreignCount, loadVars, tasks, formVars, selectedTasks,
                   opCount, latest>>
    /\ UNCHANGED uiVars

\* -------------------------------------------------------- handleUpdateTask

\* const optimisticUpdate = { ...editingTask, ...data };
\* setTasks(current.map(task => task.id === editingTask.id ? optimisticUpdate : task))
ApplyEdit(current, original, data) == ReplaceById(current, Merge(original, data))

\* setTasks(current.map(task => task.id === originalTask.id ? originalTask : task))
RestoreOriginal(current, original) == ReplaceById(current, original)

\* handleUpdateTask, called by the form's handleSubmit, up to its first
\* await.  With a changed title it first checks the title; otherwise it
\* applies the edit to the cache, closes the form and sends the update.
handleUpdateTask(data) ==
  /\ LET o == [NewOp("update", "precheck") EXCEPT
                 !.id = editingTask.id, !.data = data, !.snap = <<editingTask>>,
                 !.errAt = formSubmitError, !.form = TRUE]
     IN  IF data.title # editingTask.title
         THEN /\ pending' = pending \cup {o}
              /\ internalSubmitError' = ""
              /\ UNCHANGED <<tasks, showForm, editingTask, latest>>
         ELSE /\ tasks' = ApplyEdit(tasks, editingTask, data)
              /\ editingTask' = NoRec
              /\ showForm' = FALSE
              /\ internalSubmitError' = ""
              /\ latest' = [latest EXCEPT ![o.id] = Action(o)]
              /\ pending' = Unmount(Touch(pending, tasks' # tasks)) \cup
                              {[o EXCEPT !.phase = "sent", !.form = FALSE]}
  /\ opCount' = opCount + 1
  /\ last' = Step
  /\ UNCHANGED <<remoteVars, loadVars, formSubmitError, selectedTasks>>

\* The edit form submits.
SubmitUpdate ==
  /\ ~loading /\ showForm /\ editingTask # NoRec
  /\ opCount < opLimit
  /\ \E data \in EditData(editingTask) : handleUpdateTask(data)
  /\ UNCHANGED uiVars

\* handleUpdateTask resumes after the title check: it throws, or applies the
\* edit to the cache, closes the form and sends the update.
UpdatePrecheckReply ==
  \E o \in {p \in pending : p.kind = "update" /\ p.phase = "precheck"} :
  \E answer \in PrecheckAnswers(o) :
    /\ IF PrecheckPasses(answer)
       THEN /\ tasks' = ApplyEdit(tasks, o.snap[1], o.data)
            /\ editingTask' = NoRec
            /\ showForm' = FALSE
            /\ internalSubmitError' = ""
            /\ latest' = [latest EXCEPT ![o.id] = Action(o)]
            /\ pending' = Unmount(Touch(pending \ {o}, tasks' # tasks)) \cup
                 {[o EXCEPT !.phase = "sent", !.form = FALSE, !.answer = answer,
                            !.pre = tasks, !.preSel = selectedTasks, !.clean = TRUE]}
            /\ last' = Step
            /\ UNCHANGED formSubmitError
       ELSE /\ formSubmitError' = AfterPrecheck(o, answer)
            /\ internalSubmitError' =
                 IF o.form THEN PrecheckMessage(answer) ELSE internalSubmitError
            /\ pending' = pending \ {o}
            /\ last' = Done("updateRejected", [o EXCEPT !.answer = answer], TRUE)
            /\ UNCHANGED <<tasks, editingTask, showForm, latest>>
    /\ UNCHANGED <<remoteVars, loadVars, selectedTasks, opCount>>
    /\ UNCHANGED uiVars

\* handleUpdateTask resumes after the update: on an error it restores
\* originalTask (in the if and again in the catch block).
UpdateReply ==
  \E o \in pending :
    /\ o.kind = "update" /\ o.phase \in {"ok", "sent"}
    /\ IF o.phase = "ok"
       THEN /\ formSubmitError' = ""
            /\ last' = Done("updated", o, FALSE)
            /\ UNCHANGED <<tasks, latest>>
       ELSE /\ tasks' = RestoreOriginal(RestoreOriginal(tasks, o.snap[1]), o.snap[1])
            /\ formSubmitError' = AfterCatch(o, formSubmitError, RemoteError)
            /\ latest' = Forget(o)
            /\ last' = Done("updateFailed", [o EXCEPT !.phase = "err"], FALSE)
    /\ pending' = Touch(pending \ {o}, tasks' # tasks)
    /\ UNCHANGED <<remoteVars, loadVars, showForm, editingTask, internalSubmitError,
                   selectedTasks, opCount>>
    /\ UNCHANGED uiVars

\* ------------------------------------ handleToggleComplete, handleStatusChange

\* const nextStatus = statuses[(currentIndex + 1) % statuses.length];
NextStatus(status) ==
  IF status = "todo" THEN "in-progress"
  ELSE IF status = "in-progress" THEN "done"
  ELSE "todo"

\* setTasks(current.map(t => t.id === id ? { ...t, ...change } : t)), where
\* change is { completed } or { status }.
ApplyChange(current, id, change) ==
  [i \in DOMAIN current |->
     IF current[i].id = id THEN Merge(current[i], change) ELSE current[i]]

\* The rollback's change: { completed: task.completed }, { status: task.status }.
Undo(o) == [f \in DOMAIN o.data |-> o.snap[1][f]]

\* A card's Mark as completed button (rendered for the owner of a task
\* that is not completed): handleToggleComplete(task.id, true).
ToggleComplete ==
  /\ PageUsable
  /\ opCount < opLimit
  /\ \E i \in DOMAIN tasks :
       LET o == [NewOp("toggle", "sent") EXCEPT
                   !.id = tasks[i].id, !.data = [completed |-> TRUE],
                   !.snap = FindTask(tasks, tasks[i].id)]
       IN  /\ tasks[i].user_id = Me /\ ~tasks[i].completed
           /\ tasks' = ApplyChange(tasks, o.id, o.data)
           /\ latest' = [latest EXCEPT ![o.id] = Action(o)]
           /\ pending' = Touch(pending, tasks' # tasks) \cup {o}
  /\ opCount' = opCount + 1
  /\ last' = Step
  /\ UNCHANGED <<remoteVars, loadVars, formVars, selectedTasks>>
  /\ UNCHANGED uiVars

\* A card's status button (rendered for the owner):
\* handleStatusChange(task.id, nextStatus).
StatusChange ==
  /\ PageUsable
  /\ opCount < opLimit
  /\ \E i \in DOMAIN tasks :
       LET o == [NewOp("status", "sent") EXCEPT
                   !.id = tasks[i].id, !.data = [status |-> NextStatus(tasks[i].status)],
                   !.snap = FindTask(tasks, tasks[i].id)]
       IN  /\ tasks[i].user_id = Me
           /\ tasks' = ApplyChange(tasks, o.id, o.data)
           /\ latest' = [latest EXCEPT ![o.id] = Action(o)]
           /\ pending' = Touch(pending, tasks' # tasks) \cup {o}
  /\ opCount' = opCount + 1
  /\ last' = Step
  /\ UNCHANGED <<remoteVars, loadVars, formVars, selectedTasks>>
  /\ UNCHANGED uiVars

\* handleToggleComplete or handleStatusChange resumes: on an error it sets the
\* one field back to the value the task had in the handler's render.
ChangeReply ==
  \E o \in pending :
    /\ o.kind \in {"toggle", "status"} /\ o.phase \in {"ok", "sent"}
    /\ IF o.phase = "ok"
       THEN /\ last' = Done("changed", o, FALSE)
            /\ UNCHANGED <<tasks, latest>>
       ELSE /\ tasks' = ApplyChange(tasks, o.id, Undo(o))
            /\ latest' = Forget(o)
            /\ last' = Done("changeFailed", [o EXCEPT !.phase = "err"], FALSE)
    /\ pending' = Touch(pending \ {o}, tasks' # tasks)
    /\ UNCHANGED <<remoteVars, loadVars, formVars, selectedTasks, opCount>>
    /\ UNCHANGED uiVars

\* ------------------------------------------ handleDeleteTask, handleBulkDelete

\* tasks.filter(task => selectedTasks.has(task.id))
SelectedOf(current, selected) == SelectSeq(current, LAMBDA t : t.id \in selected)

\* setTasks(current => current.filter(task => !selectedTasks.has(task.id)))
RemoveSelected(current, selected) == SelectSeq(current, LAMBDA t : t.id \notin selected)

\* setTasks((current) => [...current, taskToDelete]), and
\* setTasks(current => [...current, ...tasksToDelete])
Reinsert(current, removed) == current \o removed

\* selectedTasks after a delete of id that succeeded, in a handler whose
\* render had the selection sel.
AfterDelete(selected, sel, id) == IF id \in sel THEN sel \ {id} ELSE selected

\* A card's Delete button (rendered for the owner), confirmed.
DeleteTask ==
  /\ PageUsable
  /\ opCount < opLimit
  /\ \E i \in DOMAIN tasks :
       LET o == [NewOp("delete", "sent") EXCEPT
                   !.id = tasks[i].id, !.snap = FindTask(tasks, tasks[i].id),
                   !.sel = selectedTasks]
       IN  /\ tasks[i].user_id = Me
           /\ tasks' = RemoveById(tasks, o.id)
           /\ latest' = [latest EXCEPT ![o.id] = NoAction]
           /\ pending' = Touch(pending, TRUE) \cup {o}
  /\ opCount' = opCount + 1
  /\ last' = Step
  /\ UNCHANGED <<remoteVars, loadVars, formVars, selectedTasks>>
  /\ UNCHANGED uiVars

\* handleDeleteTask resumes: on an error it puts taskToDelete back; otherwise
\* it takes the id out of the selection of its render.
DeleteReply ==
  \E o \in pending :
    /\ o.kind = "delete" /\ o.phase \in {"ok", "sent"}
    /\ IF o.phase = "ok"
       THEN /\ selectedTasks' = AfterDelete(selectedTasks, o.sel, o.id)
            /\ last' = Done("deleted", o, FALSE)
            /\ UNCHANGED tasks
       ELSE /\ tasks' = Reinsert(tasks, o.snap)
            /\ last' = Done("deleteFailed", [o EXCEPT !.phase = "err"], FALSE)
            /\ UNCHANGED selectedTasks
    /\ pending' = Touch(pending \ {o}, tasks' # tasks \/ selectedTasks' # selectedTasks)
    /\ UNCHANGED <<remoteVars, loadVars, formVars, opCount, latest>>
    /\ UNCHANGED uiVars

\* The bulk Delete button (rendered while the selection is not empty),
\* confirmed.
BulkDelete ==
  /\ PageUsable
  /\ opCount < opLimit
  /\ selectedTasks # {}
  /\ tasks' = RemoveSelected(tasks, selectedTasks)
  /\ latest' = [i \in Ids |-> IF i \in selectedTasks THEN NoAction ELSE latest[i]]
  /\ pending' = Touch(pending, tasks' # tasks) \cup
       {[NewOp("bulkDelete", "sent") EXCEPT
           !.ids = selectedTasks, !.snap = SelectedOf(tasks, selectedTasks),
           !.sel = selectedTasks]}
  /\ opCount' = opCount + 1
  /\ last' = Step
  /\ UNCHANGED <<remoteVars, loadVars, formVars, selectedTasks>>
  /\ UNCHANGED uiVars

\* handleBulkDelete resumes: on an error it puts tasksToDelete back; otherwise
\* it clears the selection.
BulkDeleteReply ==
  \E o \in pending :
    /\ o.kind = "bulkDelete" /\ o.phase \in {"ok", "sent"}
    /\ IF o.phase = "ok"
       THEN /\ selectedTasks' = {}
            /\ last' = Done("bulkDeleted", o, FALSE)
            /\ UNCHANGED tasks
       ELSE /\ tasks' = Reinsert(tasks, o.snap)
            /\ last' = Done("bulkDeleteFailed", [o EXCEPT !.phase = "err"], FALSE)
            /\ UNCHANGED selectedTasks
    /\ pending' = Touch(pending \ {o}, tasks' # tasks \/ selectedTasks' # selectedTasks)
    /\ UNCHANGED <<remoteVars, loadVars, formVars, opCount, latest>>
    /\ UNCHANGED uiVars

\* ------------------------------------------------ handleBulkMarkAsCompleted

\* The bulk update's fields.
Completed == [completed |-> TRUE, status |-> "done"]

\* A map that marks every task, selected or not.
CompleteEvery(current, selected) ==
  [i \in DOMAIN current |-> Merge(current[i], Completed)]

\* setTasks(current.map(task => selectedTasks.has(task.id)
\*   ? { ...task, completed: true, status: 'done' } : task))
CompleteSelected(current, selected) ==
  [i \in DOMAIN current |->
     IF current[i].id \in selected THEN Merge(current[i], Completed) ELSE current[i]]

\* setTasks(current.map(task => tasksToUpdate.find(t => t.id === task.id) ?? task))
RestoreSnapshots(current, snapshots) ==
  [i \in DOMAIN current |->
     IF FindTask(snapshots, current[i].id) = << >>
     THEN current[i]
     ELSE FindTask(snapshots, current[i].id)[1]]

\* selectedTasks when a bulk operation's remote call has failed.
AfterBulkFailure(selected) == selected

\* The bulk Mark as Completed button (rendered while the selection is not
\* empty).
BulkMarkAsCompleted ==
  /\ PageUsable
  /\ opCount < opLimit
  /\ selectedTasks # {}
  /\ tasks' = CompleteSelected(tasks, selectedTasks)
  /\ latest' = [i \in Ids |-> IF i \in selectedTasks THEN NoAction ELSE latest[i]]
  /\ pending' = Touch(pending, tasks' # tasks) \cup
       {[NewOp("bulkComplete", "sent") EXCEPT
           !.ids = selectedTasks, !.data = Completed,
           !.snap = SelectedOf(tasks, selectedTasks), !.sel = selectedTasks]}
  /\ opCount' = opCount + 1
  /\ last' = Step
  /\ UNCHANGED <<remoteVars, loadVars, formVars, selectedTasks>>
  /\ UNCHANGED uiVars

\* handleBulkMarkAsCompleted resumes: on an error it restores tasksToUpdate;
\* otherwise it clears the selection.
BulkCompleteReply ==
  \E o \in pending :
    /\ o.kind = "bulkComplete" /\ o.phase \in {"ok", "sent"}
    /\ IF o.phase = "ok"
       THEN /\ selectedTasks' = {}
            /\ last' = Done("bulkCompleted", o, FALSE)
            /\ UNCHANGED tasks
       ELSE /\ tasks' = RestoreSnapshots(tasks, o.snap)
            /\ selectedTasks' = AfterBulkFailure(selectedTasks)
            /\ last' = Done("bulkCompleteFailed", [o EXCEPT !.phase = "err"], FALSE)
    /\ pending' = Touch(pending \ {o}, tasks' # tasks \/ selectedTasks' # selectedTasks)
    /\ UNCHANGED <<remoteVars, loadVars, formVars, opCount, latest>>
    /\ UNCHANGED uiVars

\* ------------------------------------------------- the page's view controls

\* selectAllTasks
AfterSelectAll(selected, view) ==
  IF Cardinality(selected) = Len(view) THEN {} ELSE IdsOf(view)

\* The Select All checkbox (rendered while the page lists a task).
SelectAllTasks ==
  /\ PageUsable
  /\ opCount < opLimit
  /\ filteredAndSortedTasks # << >>
  /\ selectedTasks' = AfterSelectAll(selectedTasks, filteredAndSortedTasks)
  /\ pending' = Touch(pending, selectedTasks' # selectedTasks)
  /\ last' = Done("selectAll", NoOp, FALSE)
  /\ UNCHANGED <<remoteVars, loadVars, tasks, formVars, opCount, latest>>
  /\ UNCHANGED uiVars

\* The sort options and the filter values the user picks.
SortOptions == {"newest", "oldest", "due_date", "priority"}

FilterValues ==
  [category |-> {"all", "Work"}, priority |-> {"all", "high"},
   status |-> {"all", "todo"},
   dueDateRange |-> {"all", "overdue", "today", "week", "month"}]

\* FilterSort's sort select: onSortChange(e.target.value).
SetSortBy ==
  /\ PageUsable
  /\ \E option \in SortOptions \ {sortBy} : sortBy' = option
  /\ last' = Step
  /\ UNCHANGED <<remoteVars, loadVars, tasks, formVars, selectedTasks, pending,
                 opCount, latest, filters, now, zone, opLimit, session, form, errors>>

\* One of FilterSort's filter selects: onFilterChange({ ...filters, key: value }).
SetFilters ==
  /\ PageUsable
  /\ \E key \in DOMAIN FilterValues :
       \E value \in FilterValues[key] \ {filters[key]} :
         filters' = [filters EXCEPT ![key] = value]
  /\ last' = Step
  /\ UNCHANGED <<remoteVars, loadVars, tasks, formVars, selectedTasks, pending,
                 opCount, latest, sortBy, now, zone, opLimit, session, form, errors>>

\* FilterSort's Clear Filters button.
ClearFilters ==
  /\ PageUsable
  /\ filters # NoFilters
  /\ filters' = NoFilters
  /\ last' = Step
  /\ UNCHANGED <<remoteVars, loadVars, tasks, formVars, selectedTasks, pending,
                 opCount, latest, sortBy, now, zone, opLimit, session, form, errors>>

\* The tasks of the caches the view is computed from: of two categories,
\* three priorities, completed or not, due yesterday, today, in a week, in a
\* month or never, each created later than the one before.
ViewTask(id, category, priority, status, completed, due) ==
  [Task(id, Me, <<"a">>, status, completed, id, id) EXCEPT
     !.category = category, !.priority = priority, !.due_date = due]

ViewTasks ==
  {ViewTask(1, "Work", "high", "todo", FALSE, 10),
   ViewTask(2, "Personal", "low", "done", TRUE, 9),
   ViewTask(3, "Work", "low", "todo", FALSE, 9),
   ViewTask(4, "Work", "medium", "in-progress", FALSE, NoDate),
   ViewTask(5, "Personal", "high", "todo", TRUE, 41)}

\* The caches: the lists of at most MaxShown different tasks.
ViewCaches ==
  {c \in UNION {[1 .. n -> ViewTasks] : n \in 0 .. MaxShown} :
     \A i, j \in DOMAIN c : c[i] = c[j] => i = j}

\* The browser's time zones: west of UTC, UTC, east of UTC.
Zones == {-5, 0, 5}

\* A loaded page with some cache, in some time zone.
ViewInit ==
  /\ tasks \in ViewCaches
  /\ zone \in Zones
  /\ now = Noon
  /\ rows = {tasks[i] : i \in DOMAIN tasks}
  /\ clock = Cardinality(ViewTasks)
  /\ loadPhase = "done"
  /\ loadData = tasks
  /\ feed = << >>
  /\ loading = FALSE
  /\ showForm = FALSE
  /\ editingTask = NoRec
  /\ formSubmitError = ""
  /\ internalSubmitError = ""
  /\ selectedTasks = {}
  /\ pending = {}
  /\ opCount = 0
  /\ foreignCount = 0
  /\ latest = [i \in Ids |-> NoAction]
  /\ last = Step
  /\ sortBy = "newest"
  /\ filters = NoFilters
  /\ form = BlankForm
  /\ errors = {}
  /\ opLimit = MaxOps
  /\ session = SignedIn

ViewNext ==
  \/ SetSortBy
  \/ SetFilters
  \/ ClearFilters
  \/ ToggleTaskSelection
  \/ SelectAllTasks

ViewSpec == ViewInit /\ [][ViewNext]_vars

\* ------------------------------------------------------ the task form's fields

\* A text of n times the same character.
Repeat(char, n) == [i \in 1 .. n |-> char]

\* What the user types into the title field.
TypedTitles ==
  {<< >>, <<" ">>, <<"!">>, <<"a">>, <<" ", "7">>,
   Repeat("a", TitleLimit), Repeat("a", TitleLimit + 1)}

\* What the user types into the description field.
TypedDescriptions ==
  {<< >>, Repeat("a", DescriptionLimit), Repeat("a", DescriptionLimit + 1)}

\* The title field's onChange: a value of more than 100 characters is
\* ignored; otherwise the title is set and its error cleared.
SetTitle ==
  /\ ~loading /\ showForm
  /\ \E value \in TypedTitles :
       IF Len(value) <= TitleLimit
       THEN form' = [form EXCEPT !.title = value] /\ errors' = errors \ {"title"}
       ELSE UNCHANGED <<form, errors>>
  /\ last' = Step
  /\ UNCHANGED <<remoteVars, loadVars, tasks, formVars, selectedTasks, pending,
                 opCount, latest, sortBy, filters, now, zone, opLimit, session>>

\* The description field's onChange: a value of more than 1000 characters
\* is ignored.
SetDescription ==
  /\ ~loading /\ showForm
  /\ \E value \in TypedDescriptions :
       IF Len(value) <= DescriptionLimit
       THEN form' = [form EXCEPT !.description = value]
       ELSE UNCHANGED form
  /\ last' = Step
  /\ UNCHANGED <<remoteVars, loadVars, tasks, formVars, selectedTasks, pending,
                 opCount, latest, sortBy, filters, now, zone, opLimit, session, errors>>

\* A priority button: the priority is set and its error cleared.
SetPriority ==
  /\ ~loading /\ showForm
  /\ \E p \in {"low", "medium", "high"} : form' = [form EXCEPT !.priority = p]
  /\ errors' = errors \ {"priority"}
  /\ last' = Step
  /\ UNCHANGED <<remoteVars, loadVars, tasks, formVars, selectedTasks, pending,
                 opCount, latest, sortBy, filters, now, zone, opLimit, session>>

\* The dates the user picks or clears: none, yesterday, today, tomorrow.
PickedDates == {NoDate, 9, 10, 11}

\* The date field's onChange: the date is set and its error cleared.
SetDueDate ==
  /\ ~loading /\ showForm
  /\ \E d \in PickedDates : form' = [form EXCEPT !.dueDate = d]
  /\ errors' = errors \ {"dueDate"}
  /\ last' = Step
  /\ UNCHANGED <<remoteVars, loadVars, tasks, formVars, selectedTasks, pending,
                 opCount, latest, sortBy, filters, now, zone, opLimit, session>>

\* The form's handleSubmit: it clears the submit error and validates; only
\* a form without errors calls onSubmit, handleCreateTask for a new task and
\* handleUpdateTask for an edited one.
handleSubmit ==
  /\ ~loading /\ showForm
  /\ opCount < opLimit
  /\ errors' = validateForm
  /\ IF validateForm = {}
     THEN IF editingTask = NoRec
          THEN handleCreateTask(Submitted(form))
          ELSE handleUpdateTask(Submitted(form))
     ELSE /\ internalSubmitError' = ""
          /\ last' = Done("invalid", NoOp, FALSE)
          /\ UNCHANGED <<remoteVars, loadVars, tasks, showForm, editingTask,
                         formSubmitError, selectedTasks, pending, opCount, latest>>
  /\ UNCHANGED <<sortBy, filters, now, zone, opLimit, session, form>>

\* The tasks of the cache the form is opened on: one that the form accepts
\* as it is, and one written by another client, with a title and a
\* description beyond the form's limits and a due date that has passed.
FormTasks ==
  <<Task(2, Me, Repeat("a", TitleLimit + 1), "todo", FALSE, 2, 2),
    [Task(1, Me, <<"a">>, "todo", FALSE, 1, 1) EXCEPT !.due_date = 11]>>

\* The form is mounted, for a new task or on a task of the cache, when the
\* page can start one more remote operation.
FormInit ==
  /\ zone \in Zones
  /\ now = Noon
  /\ tasks \in {FormTasks,
                [FormTasks EXCEPT ![1].description = Repeat("a", DescriptionLimit + 1),
                                  ![1].due_date = 9]}
  /\ rows = {tasks[i] : i \in DOMAIN tasks}
  /\ clock = Len(tasks)
  /\ loadPhase = "done"
  /\ loadData = tasks
  /\ loading = FALSE
  /\ feed = << >>
  /\ showForm = TRUE
  /\ editingTask \in {NoRec} \cup {tasks[i] : i \in DOMAIN tasks}
  /\ form = MountForm(editingTask)
  /\ errors = {}
  /\ formSubmitError = ""
  /\ internalSubmitError = ""
  /\ selectedTasks = {}
  /\ pending = {}
  /\ opCount = MaxOps - 1
  /\ foreignCount = 0
  /\ latest = [i \in Ids |-> NoAction]
  /\ last = Step
  /\ sortBy = "newest"
  /\ filters = NoFilters
  /\ opLimit = MaxOps
  /\ session = SignedIn

FormNext ==
  \/ SetTitle
  \/ SetDescription
  \/ SetPriority
  \/ SetDueDate
  \/ handleSubmit

FormSpec == FormInit /\ [][FormNext]_vars

\* ------------------------------------------- one create or edit at a time

\* No create and no edit is in flight.
Settled == \A o \in pending : o.kind \notin {"create", "update"}

\* The form submits a new task when the previous create or edit has settled.
SerialCreate == Settled /\ SubmitCreate

\* The edit form submits when the previous create or edit has settled.
SerialUpdate == Settled /\ SubmitUpdate

\* The page starts MaxSerial remote operations.
SerialInit == Start /\ opLimit = MaxSerial

\* The page's forms, with creates and edits one at a time and no other
\* session.
SerialNext ==
  \/ LoadServer
  \/ LoadResponse
  \/ FeedDeliver
  \/ OpenAddForm
  \/ OpenEditForm
  \/ CloseForm
  \/ SerialCreate
  \/ CreatePrecheckReply
  \/ CreateInsertServer
  \/ CreateInsertReply
  \/ SerialUpdate
  \/ UpdatePrecheckReply
  \/ UpdateServer
  \/ UpdateReply

SerialSpec == SerialInit /\ [][SerialNext]_vars

\* ------------------------------------------------ the mount effect, [user]

\* A cleanup that leaves the channel open.
LeftOpen(channels) == channels

\* if (unsubscribe) unsubscribe(): channel.unsubscribe() closes the channel
\* the effect opened.
Cleanup(channels) == IF channels > 0 THEN channels - 1 ELSE 0

\* useAuth's user becomes null: React runs the effect's cleanup, and the
\* effect, run again, does nothing.  Events on their way to the closed
\* channel are not delivered.
SignOut ==
  /\ session.mounted /\ session.user
  /\ session' = [session EXCEPT !.user = FALSE, !.channels = Cleanup(@)]
  /\ feed' = << >>
  /\ last' = Step
  /\ UNCHANGED <<rows, clock, foreignCount, loadVars, tasks, formVars, selectedTasks,
                 pending, opCount, latest, sortBy, filters, now, zone, form, errors,
                 opLimit>>

\* useAuth's user becomes a user again: the effect calls loadTasks() and
\* subscribeToTasks(), which opens a channel.  The channel receives the
\* events emitted from now on.
SignIn ==
  /\ session.mounted /\ ~session.user
  /\ session.logins < MaxLogins
  /\ loadPhase \in {"done", "failed"}
  /\ session' = [session EXCEPT !.user = TRUE, !.channels = @ + 1, !.logins = @ + 1]
  /\ loadPhase' = "sent"
  /\ feed' = << >>
  /\ last' = Step
  /\ UNCHANGED <<rows, clock, foreignCount, loadData, loading, tasks, formVars,
                 selectedTasks, pending, opCount, latest, sortBy, filters, now, zone,
                 form, errors, opLimit>>

\* The component is unmounted: React runs the cleanup of the effect, if the
\* effect returned one (it does for a user).
Teardown ==
  /\ session.mounted
  /\ session' = [session EXCEPT !.mounted = FALSE,
                                !.channels = IF session.user THEN Cleanup(@) ELSE @]
  /\ feed' = << >>
  /\ last' = Step
  /\ UNCHANGED <<rows, clock, foreignCount, loadVars, tasks, formVars, selectedTasks,
                 pending, opCount, latest, sortBy, filters, now, zone, form, errors,
                 opLimit>>

\* loadTasks and the handlers resume on the mounted component.
MountedLoadResponse == session.mounted /\ LoadResponse

MountedChangeReply == session.mounted /\ ChangeReply

\* The page over sign-out, sign-in and unmount, with status changes of the
\* user and writes of other sessions as the sources of change-feed events.
SessionInit == Start /\ opLimit = MaxOps

SessionNext ==
  \/ LoadServer
  \/ MountedLoadResponse
  \/ FeedDeliver
  \/ ForeignInsert
  \/ ForeignUpdate
  \/ ForeignDelete
  \/ StatusChange
  \/ UpdateServer
  \/ MountedChangeReply
  \/ SignOut
  \/ SignIn
  \/ Teardown

SessionSpec == SessionInit /\ [][SessionNext]_vars

\* The status button pressed when no handler of the page is suspended: each
\* status change starts after the one before has returned.
CycleStatus == pending = {} /\ StatusChange

\* The page with its one loaded task, used for status changes only.
CycleInit == Start /\ opLimit = MaxCycles

CycleNext ==
  \/ LoadServer
  \/ LoadResponse
  \/ FeedDeliver
  \/ CycleStatus
  \/ UpdateServer
  \/ ChangeReply

CycleSpec == CycleInit /\ [][CycleNext]_vars

Next ==
  \/ LoadServer
  \/ LoadResponse
  \/ FeedDeliver
  \/ ForeignInsert
  \/ ForeignUpdate
  \/ ForeignDelete
  \/ OpenAddForm
  \/ OpenEditForm
  \/ CloseForm
  \/ ToggleTaskSelection
  \/ SubmitCreate
  \/ CreatePrecheckReply
  \/ CreateInsertServer
  \/ CreateInsertReply
  \/ UpdateServer
  \/ DeleteServer
  \/ SubmitUpdate
  \/ UpdatePrecheckReply
  \/ UpdateReply
  \/ ToggleComplete
  \/ StatusChange
  \/ ChangeReply
  \/ DeleteTask
  \/ DeleteReply
  \/ BulkDelete
  \/ BulkDeleteReply
  \/ BulkMarkAsCompleted
  \/ BulkCompleteReply
  \/ SelectAllTasks

Spec == Init /\ [][Next]_vars

\* ---------------------------------------------------------------- the claims

\* No remote call is in flight, every change-feed event has been delivered,
\* and the initial load succeeded.
Quiescent == loadPhase = "done" /\ pending = {} /\ feed = << >>

\* The handler whose end led to this state.
LastOp == last.op

\* C1: in every reachable state the cache holds at most one entry per task
\* id.
C1_UniqueIds ==
  \A i, j \in DOMAIN tasks : tasks[i].id = tasks[j].id => i = j

\* C2: when the remote update of an edit fails, and nothing else changed the
\* cache since the edit was applied to it, the cache after the rollback is the
\* cache from before the edit was applied.
C2_UpdateRollbackRestores ==
  (last.kind = "updateFailed" /\ LastOp.clean) => tasks = LastOp.pre

\* C3: when the remote delete of a single or bulk delete fails, and nothing
\* else changed the cache since the removal, the cache holds exactly the
\* records it held before the delete, each once per entry it had.
C3_DeleteRollbackRestores ==
  (last.kind \in {"deleteFailed", "bulkDeleteFailed"} /\ LastOp.clean)
    => BagOf(tasks) = BagOf(LastOp.pre)

\* C4: when the remote update of a bulk complete fails, every cache entry of
\* a selected task is that task's record from before the operation, the
\* failure leaves the selection as it found it, and, when nothing else
\* changed the cache or the selection meanwhile, the cache and the selection
\* are those from before the operation.
C4_BulkCompleteRollback ==
  last.kind = "bulkCompleteFailed" =>
    /\ LastOp.ids # {}
    /\ \A i \in DOMAIN tasks :
         tasks[i].id \in LastOp.ids =>
           \A k \in DOMAIN LastOp.pre :
             LastOp.pre[k].id = tasks[i].id => \E m \in DOMAIN LastOp.pre :
               LastOp.pre[m] = tasks[i]
    /\ selectedTasks = last.selBefore
    /\ LastOp.clean => (tasks = LastOp.pre /\ selectedTasks = LastOp.preSel)

\* C8: once the initial load has succeeded, no remote call is in flight and
\* every change-feed event has been delivered, the cache holds exactly the
\* current user's rows of the remote table, each once.
C8_Converged ==
  Quiescent => BagOf(tasks) = SetToBag({r \in rows : r.user_id = Me})

\* C6: in every reachable state every selected id is the id of a task in the
\* cache.
C6_SelectionWithinCache == selectedTasks \subseteq IdsOf(tasks)

\* A task on which the user has acted (edit, toggle-complete, status-cycle)
\* shows in the cache the values of the user's most recent action on it (an
\* action that failed and was rolled back, or that another session's write
\* followed, no longer counts).
ShowsLatestAction ==
  \A i \in DOMAIN tasks :
    latest[tasks[i].id] # NoAction =>
      \A f \in DOMAIN latest[tasks[i].id].data :
        tasks[i][f] = latest[tasks[i].id].data[f]

\* C7: the cache never shows for a task a state older than the one set by the
\* user's most recent local action on it; here for the echoes of the
\* session's own writes: when no other session has written, the delivery of a
\* change-feed event leaves every task showing the user's most recent action
\* on it.
C7_EchoKeepsLatestAction ==
  (foreignCount = 0 /\ last.kind = "feed") => ShowsLatestAction

\* C5: handleCreateTask changes the cache only when its insert has succeeded.
\* While it is suspended, and when it has ended with a duplicate title, a
\* failed title check or a failed insert, the cache is the cache from before
\* the create (nothing else having changed it); an insert is sent only after
\* a title check that found no task of the user with that title; and a failed
\* create throws to its caller, the task form, which shows the error while
\* it is mounted.
C5_CreateOnlyAfterInsert ==
  /\ \A o \in pending :
       o.kind = "create" =>
         /\ o.clean => tasks = o.pre
         /\ o.phase \in {"sent", "ok"} => o.answer = "none"
  /\ last.kind = "createFailed" =>
       /\ LastOp.clean => tasks = LastOp.pre
       /\ LastOp.answer # "none" => LastOp.phase = "precheck"
       /\ last.rejected
       /\ LastOp.form => internalSubmitError # ""

\* A second create of a title the user's cached task already has ended with
\* the duplicate-title error, and the cache still has that title once.
C5_DuplicateRejected ==
  /\ last.kind = "createFailed"
  /\ LastOp.answer = "found"
  /\ LastOp.clean
  /\ Cardinality({i \in DOMAIN tasks : tasks[i].title = LastOp.data.title}) = 1
  /\ formSubmitError = DuplicateTitle

\* The records the table and the cache hold.
KnownRecords == rows \cup {tasks[i] : i \in DOMAIN tasks}

\* The change-feed events over those records, and the events in flight.
KnownEvents ==
  {InsertEvent(r) : r \in KnownRecords}
    \cup {UpdateEvent(r, q) : r, q \in KnownRecords}
    \cup {DeleteEvent(r) : r \in KnownRecords}
    \cup {feed[i] : i \in DOMAIN feed}
    \cup (IF last.kind = "feed" THEN {last.ev} ELSE {})

\* C9: for the cache of every reachable state and every change-feed event of
\* the current user, ingesting the event twice gives the cache that ingesting
\* it once gives; and the cache a delivery has left is left as it is by a
\* second delivery of the same event.
C9_IngestIdempotent ==
  /\ \A e \in KnownEvents :
       ForCurrentUser(e) =>
         IngestEvent(IngestEvent(tasks, e), e) = IngestEvent(tasks, e)
  /\ (last.kind = "feed" /\ ForCurrentUser(last.ev)) =>
       IngestEvent(tasks, last.ev) = tasks

\* The change feed has put the current user's new row into the cache, where
\* a second delivery of the event finds it.
C9_InsertDelivered ==
  /\ last.kind = "feed"
  /\ last.ev.eventType = "INSERT"
  /\ last.ev.new.user_id = Me
  /\ tasks # << >>
  /\ tasks[1] = last.ev.new
  /\ Len(IngestEvent(tasks, last.ev)) = Len(tasks)

Shown == {filteredAndSortedTasks[i] : i \in DOMAIN filteredAndSortedTasks}

\* C11: selectAll clears the selection if and only if every id of the listed
\* tasks was selected already; otherwise every listed id is selected
\* afterwards and no id that is not listed has been added.
C11_SelectAllScoped ==
  last.kind = "selectAll" =>
    /\ selectedTasks = {} <=> IdsOf(filteredAndSortedTasks) \subseteq last.selBefore
    /\ ~(IdsOf(filteredAndSortedTasks) \subseteq last.selBefore) =>
         /\ IdsOf(filteredAndSortedTasks) \subseteq selectedTasks
         /\ (selectedTasks \ last.selBefore) \subseteq IdsOf(filteredAndSortedTasks)

\* The day it is where the browser is.
Today == (now + zone) \div 24

\* The due-date buckets as dates: overdue is due before today and not
\* completed, today is due today, week is due from today to the seventh day
\* after it, month is due from today to the same day of the next month.
InBucket(t, bucket) ==
  /\ t.due_date # NoDate
  /\ CASE bucket = "overdue" -> t.due_date < Today /\ ~t.completed
       [] bucket = "today" -> t.due_date = Today
       [] bucket = "week" -> Today <= t.due_date /\ t.due_date <= Today + 7
       [] bucket = "month" ->
            Today <= t.due_date /\ t.due_date <= Today + DaysInMonth(Today)

\* A task matches every filter that is not "all".
MatchesFilters(t) ==
  /\ filters.category # "all" => t.category = filters.category
  /\ filters.priority # "all" => t.priority = filters.priority
  /\ filters.status # "all" => t.status = filters.status
  /\ filters.dueDateRange # "all" => InBucket(t, filters.dueDateRange)

\* C13: the page lists exactly the tasks of the cache that match every
\* active filter, each once per entry of the cache.
C13_FilterConjunction ==
  BagOf(filteredAndSortedTasks) = BagOf(SelectSeq(tasks, MatchesFilters))

\* C14: with only the due-date filter active, the overdue filter lists
\* exactly the tasks due before today that are not completed, and the today
\* filter exactly the tasks due today; a task without a due date is in
\* neither list.
C14_OverdueAndToday ==
  /\ filters = [NoFilters EXCEPT !.dueDateRange = "overdue"] =>
       \A i \in DOMAIN tasks :
         tasks[i] \in Shown <=>
           (tasks[i].due_date # NoDate /\ tasks[i].due_date < Today /\ ~tasks[i].completed)
  /\ filters = [NoFilters EXCEPT !.dueDateRange = "today"] =>
       \A i \in DOMAIN tasks :
         tasks[i] \in Shown <=>
           (tasks[i].due_date # NoDate /\ tasks[i].due_date = Today)

\* C15: whatever the cache, the filters and the sort option, the page lists
\* no completed task before a task that is not completed.
C15_CompletedLast ==
  \A i, j \in DOMAIN filteredAndSortedTasks :
    (i < j /\ filteredAndSortedTasks[i].completed) => filteredAndSortedTasks[j].completed

\* The cache holds a completed task before a task that is not completed, the
\* page lists both, sorted by something other than the default.
C15_CompletedMoved ==
  /\ sortBy # "newest"
  /\ \E i, j \in DOMAIN tasks :
       /\ i < j
       /\ tasks[i].completed /\ ~tasks[j].completed
       /\ tasks[i] \in Shown /\ tasks[j] \in Shown

\* The ways a remote operation ends in failure.
FailureKinds ==
  {"createFailed", "updateRejected", "updateFailed", "changeFailed",
   "deleteFailed", "bulkDeleteFailed", "bulkCompleteFailed"}

\* The page shows an error message: the form is mounted and has one.
ErrorVisible == showForm /\ (internalSubmitError # "" \/ formSubmitError # "")

\* C12: when a remote operation has failed, the failure was thrown to the
\* caller or an error message is visible, and the page is still rendered, so
\* that every operation can be invoked.
C12_FailuresReported ==
  last.kind \in FailureKinds => (last.rejected \/ ErrorVisible) /\ ~loading

\* C16: as long as no other session has written, every task of the cache
\* and every row of the table that is completed has the status done.
C16_CompletedIsDone ==
  foreignCount = 0 =>
    /\ \A i \in DOMAIN tasks : tasks[i].completed => tasks[i].status = "done"
    /\ \A r \in rows : r.completed => r.status = "done"

\* C18: while an edit's update is on its way and nothing else has changed the
\* cache since the edit was applied to it, every other task of the cache is as
\* it was before the edit, and the edited task differs from what it was only
\* in the fields the form submitted.
C18_EditChangesSubmittedFields ==
  \A o \in pending :
    (o.kind = "update" /\ o.phase = "sent" /\ o.clean) =>
      /\ Len(tasks) = Len(o.pre)
      /\ \A i \in DOMAIN o.pre :
           IF o.pre[i].id = o.id
           THEN \A f \in DOMAIN o.pre[i] \ DOMAIN o.data : tasks[i][f] = o.pre[i][f]
           ELSE tasks[i] = o.pre[i]

\* C19: when the one remote operation so far is an edit's update that the
\* server has applied, and no other session has written, the event at the
\* head of the feed is that update's echo, and ingesting it leaves the cache
\* as it is.
C19_EchoIsNoOp ==
  ( /\ foreignCount = 0 /\ opCount = 1
    /\ feed # << >>
    /\ \/ last.kind = "updated"
       \/ \E o \in pending : o.kind = "update" /\ o.phase = "ok" )
    => IngestEvent(tasks, Head(feed)) = tasks

\* C20: once the tasks are loaded, right after the change-feed callback ran
\* on an UPDATE event of the current user, the cache holds the event's
\* record.
C20_UpdateUpserts ==
  ( /\ loadPhase = "done"
    /\ last.kind = "feed" /\ last.ev.eventType = "UPDATE" /\ ForCurrentUser(last.ev) )
    => \E i \in DOMAIN tasks : tasks[i] = last.ev.new

\* The form's fields are as the form requires: a title that is not blank,
\* has a letter or a digit and at most 100 characters, a description of at
\* most 1000 characters, a priority, and a due date that is not before today.
Acceptable ==
  /\ \E i \in DOMAIN form.title : form.title[i] # " "
  /\ \E i \in DOMAIN form.title : form.title[i] \in {"a", "c", "7"}
  /\ Len(form.title) <= 100
  /\ Len(form.description) <= 1000
  /\ form.priority \in {"low", "medium", "high"}
  /\ form.dueDate # NoDate
  /\ form.dueDate >= Today

\* C17: a step of the task form calls a handler (a remote operation starts)
\* only when the form's fields are as required; otherwise no remote call is
\* issued and the cache is unchanged.
C17_SubmitOnlyIfValid ==
  [][~Acceptable =>
       (opCount' = opCount /\ pending' = pending /\ rows' = rows /\ tasks' = tasks)]_vars

\* The form has just refused a submit whose only fault is a due date that has
\* passed.
C17_PastDateRefused ==
  /\ last.kind = "invalid"
  /\ errors = {"dueDate"}
  /\ form.dueDate # NoDate
  /\ pending = {}

\* C21: as long as no other session has written, the cache is ordered by
\* descending creation time.
C21_NewestFirst ==
  foreignCount = 0 =>
    \A i, j \in DOMAIN tasks : i < j => tasks[i].created_at >= tasks[j].created_at

\* C22: with creates and edits issued one at a time and no other session
\* writing, no two rows of the user have the same title.
C22_TitlesUnique ==
  \A r, q \in rows : (r.user_id = Me /\ q.user_id = Me /\ r.title = q.title) => r = q

\* C23: an edit runs the title check exactly when the title it submits
\* differs from the title the cache had for the task when the form was
\* submitted; and right after a check refused the edit, the cache is as it
\* was at the submit (when nothing else changed it), no update of that edit is
\* in flight, and a form that was not closed meanwhile is still open on the
\* same task.
C23_PrecheckOnTitleChange ==
  /\ \A o \in pending :
       (o.kind = "update" /\ (o.phase = "precheck" \/ o.answer = "")) =>
         \A i \in DOMAIN o.pre :
           o.pre[i].id = o.id =>
             (o.phase = "precheck" <=> o.pre[i].title # o.data.title)
  /\ last.kind = "updateRejected" =>
       /\ LastOp.clean => tasks = LastOp.pre
       /\ \A o \in pending : o.n # LastOp.n
       /\ LastOp.form => (showForm /\ editingTask = LastOp.snap[1])

\* The cache differs from the list before only in the one field of the change,
\* in the entries of the task with the given id.
OnlyFieldChanged(before, id, change) ==
  /\ Len(tasks) = Len(before)
  /\ \A i \in DOMAIN before :
       IF before[i].id = id
       THEN /\ \A f \in DOMAIN change : tasks[i][f] = change[f]
            /\ \A f \in DOMAIN before[i] \ DOMAIN change : tasks[i][f] = before[i][f]
       ELSE tasks[i] = before[i]

\* C24: a toggle submits and changes only completed, a status change only
\* status: while its update is on its way and nothing else has changed the
\* cache since, the cache differs from the one before the action only in that
\* field of that task; and when the update has failed, the cache is the one
\* from before the action.
C24_OneFieldChanged ==
  /\ \A o \in pending :
       (o.kind \in {"toggle", "status"}) =>
         /\ DOMAIN o.data = (IF o.kind = "toggle" THEN {"completed"} ELSE {"status"})
         /\ o.clean => OnlyFieldChanged(o.pre, o.id, o.data)
  /\ (last.kind = "changeFailed" /\ LastOp.clean) => tasks = LastOp.pre

\* C25: a bulk call names exactly the ids selected when it was started; when
\* a bulk complete has succeeded the selection is empty and, if nothing else
\* changed the cache meanwhile, the cache is the one before the action with
\* every selected task completed and done and every other task as it was;
\* when a bulk delete has succeeded the selection is empty and, if nothing
\* else changed the cache meanwhile, the cache is the one before the action
\* without the selected tasks.
C25_BulkExact ==
  /\ \A o \in pending :
       o.kind \in {"bulkDelete", "bulkComplete"} =>
         (Target(o) = o.preSel /\ o.phase \in {"sent", "ok"})
  /\ last.kind = "bulkCompleted" =>
       /\ selectedTasks = {}
       /\ LastOp.clean =>
            /\ Len(tasks) = Len(LastOp.pre)
            /\ \A i \in DOMAIN LastOp.pre :
                 IF LastOp.pre[i].id \in LastOp.preSel
                 THEN tasks[i] = [LastOp.pre[i] EXCEPT !.completed = TRUE, !.status = "done"]
                 ELSE tasks[i] = LastOp.pre[i]
  /\ last.kind = "bulkDeleted" =>
       /\ selectedTasks = {}
       /\ LastOp.clean =>
            tasks = SelectSeq(LastOp.pre, LAMBDA t : t.id \notin LastOp.preSel)

\* C25 witness: a bulk complete succeeded on a cache that held a selected
\* task not yet completed and an unselected task not yet completed.
C25_BulkCompletedSome ==
  /\ last.kind = "bulkCompleted"
  /\ LastOp.clean
  /\ \E i, j \in DOMAIN LastOp.pre :
       /\ LastOp.pre[i].id \in LastOp.preSel /\ ~LastOp.pre[i].completed
       /\ LastOp.pre[j].id \notin LastOp.preSel /\ ~LastOp.pre[j].completed

\* The status after the given one in the cycle todo, in-progress, done.
Successor(status) ==
  CASE status = "todo" -> "in-progress"
    [] status = "in-progress" -> "done"
    [] status = "done" -> "todo"

\* C26: a status change asks for the successor of the status the task showed
\* when the button was pressed; and when three status changes of a task,
\* each started after the one before had returned, have all succeeded, the
\* task's row has the status it started with.
C26_CycleReturns ==
  /\ \A o \in pending :
       o.kind = "status" =>
         \A i \in DOMAIN o.pre :
           o.pre[i].id = o.id => o.data.status = Successor(o.pre[i].status)
  /\ (clock = Cardinality(InitRows) + MaxCycles /\ pending = {}) =>
       \A r \in rows : \E q \in InitRows : q.id = r.id /\ q.status = r.status

\* Two listed tasks are in the order of the chosen sort option.
InKeyOrder(a, b) ==
  CASE sortBy = "newest" -> a.created_at >= b.created_at
    [] sortBy = "oldest" -> a.created_at <= b.created_at
    [] sortBy = "due_date" ->
         /\ a.due_date = NoDate => b.due_date = NoDate
         /\ (a.due_date # NoDate /\ b.due_date # NoDate) => a.due_date <= b.due_date
    [] sortBy = "priority" ->
         /\ a.priority = "medium" => b.priority # "high"
         /\ a.priority = "low" => b.priority = "low"

\* C27: of two listed tasks that are both completed or both not, the one
\* listed first comes first by the sort option: it is due no later, and a task
\* without a due date comes after every task with one (due_date); its
\* priority is no lower, high before medium before low (priority); it was
\* created no earlier (newest) or no later (oldest).
C27_SortedWithinBucket ==
  \A i, j \in DOMAIN filteredAndSortedTasks :
    (i < j /\ filteredAndSortedTasks[i].completed = filteredAndSortedTasks[j].completed) =>
      InKeyOrder(filteredAndSortedTasks[i], filteredAndSortedTasks[j])

\* C27 witness: under the priority option the page lists a medium task and a
\* low task, neither completed, that the cache holds in the other order.
C27_PriorityReordered ==
  /\ sortBy = "priority"
  /\ \E i, j \in DOMAIN tasks :
       /\ i < j
       /\ tasks[i].priority = "low" /\ tasks[j].priority = "medium"
       /\ ~tasks[i].completed /\ ~tasks[j].completed
       /\ {tasks[i], tasks[j]} \subseteq Shown

\* C28: at most one change-feed channel is open; one is open exactly while
\* the component is mounted with a signed-in user; and a change-feed event is
\* delivered only then, so none changes the cache after sign-out or unmount.
C28_OneSubscription ==
  /\ session.channels <= 1
  /\ session.channels = 1 <=> (session.mounted /\ session.user)
  /\ last.kind = "feed" => (session.mounted /\ session.user)

\* C28 witness: the user has signed out and in again and the component has
\* then been unmounted, and the server has emitted an event since.
C28_EventAfterTeardown ==
  /\ ~session.mounted
  /\ session.logins = MaxLogins
  /\ feed # << >>

\* C29: when a single delete has succeeded, the selection is the one the
\* handler found on its return without the deleted id: what the user selected
\* or deselected while the delete was on its way is kept.
C29_DeleteKeepsSelection ==
  last.kind = "deleted" => selectedTasks = last.selBefore \ {LastOp.id}

\* C30: whenever the task form becomes visible, through Add New Task or
\* Edit, the submit error the page passes to it is empty.
C30_FormOpensWithoutError ==
  [][(~showForm /\ showForm') => formSubmitError' = ""]_vars

====
